---------------------------- MODULE Spec2Model ----------------------------
(***************************************************************************)
(* A model of the ray tracer's intersection and light-transport core:      *)
(* src/src/util/geometry.rs (AABB, BVH, StaticMesh, IndexedTriangle,        *)
(* Sphere, Triangle, Plane) and src/src/util/tracing.rs (Scene, shade_ray,  *)
(* render_to_image).                                                        *)
(*                                                                          *)
(* Numbers.  The program computes in f32.  The model computes in exact      *)
(* rationals [n, d] (d > 0, lowest terms) and draws its inputs from small   *)
(* sets of integer coordinates chosen so that every comparison the code     *)
(* makes on them has the same outcome in f32 as in exact arithmetic.  The   *)
(* IEEE values the slab test can produce from a zero direction component    *)
(* (+inf, -inf, NaN) are modelled as such.                                  *)
(***************************************************************************)
EXTENDS Integers, Sequences, FiniteSets, TLC

None == [kind |-> "None"]

Abs(x) == IF x < 0 THEN -x ELSE x

RECURSIVE Gcd(_, _)
Gcd(a, b) == IF b = 0 THEN a ELSE Gcd(b, a % b)

\* The rational n/d in lowest terms with a positive denominator (d # 0).
Rat(n, d) ==
    LET g == Gcd(Abs(n), Abs(d))
        s == IF d < 0 THEN -1 ELSE 1
    IN  [n |-> (s * n) \div g, d |-> (s * d) \div g]

R(i) == [n |-> i, d |-> 1]
RAdd(a, b) == Rat(a.n * b.d + b.n * a.d, a.d * b.d)
RSub(a, b) == Rat(a.n * b.d - b.n * a.d, a.d * b.d)
RMul(a, b) == Rat(a.n * b.n, a.d * b.d)
RDiv(a, b) == Rat(a.n * b.d, a.d * b.n)
RNeg(a) == [n |-> -a.n, d |-> a.d]
RAbs(a) == [n |-> Abs(a.n), d |-> Abs(a.d)]
RLt(a, b) == a.n * b.d < b.n * a.d
RLe(a, b) == a.n * b.d <= b.n * a.d
RMin(a, b) == IF RLt(b, a) THEN b ELSE a
RMax(a, b) == IF RLt(a, b) THEN b ELSE a

\* The square root of a rational that is the square of a rational.
ISqrt(k) == CHOOSE r \in 0..k : r * r = k
IsSquare(k) == k >= 0 /\ \E r \in 0..k : r * r = k
RIsSquare(a) == IsSquare(a.n) /\ IsSquare(a.d)
RSqrt(a) == [n |-> ISqrt(a.n), d |-> ISqrt(a.d)]

\* f32 -0.0, where the sign of a zero decides an outcome: the zero with a
\* negative denominator.  Every other zero of the model is +0.0.
NegZero == [n |-> 0, d |-> -1]

\* f32::signum: 1.0 for every number with a positive sign, +0.0 included, and
\* -1.0 for every number with a negative sign, -0.0 included.
RSignum(a) == IF a.n < 0 \/ (a.n = 0 /\ a.d < 0) THEN R(-1) ELSE R(1)

\* f32::clamp
RClamp(a, lo, hi) == IF RLt(a, lo) THEN lo ELSE IF RLt(hi, a) THEN hi ELSE a

(***************************************************************************)
(* Vec3 (cgmath::Vector3<f32>): <<x, y, z>>; axis i of the code is index    *)
(* i + 1 here.                                                              *)
(***************************************************************************)
vec3(x, y, z) == <<x, y, z>>
V(x, y, z) == <<R(x), R(y), R(z)>>
VZero == V(0, 0, 0)
VAdd(a, b) == <<RAdd(a[1], b[1]), RAdd(a[2], b[2]), RAdd(a[3], b[3])>>
VSub(a, b) == <<RSub(a[1], b[1]), RSub(a[2], b[2]), RSub(a[3], b[3])>>
VScale(k, a) == <<RMul(k, a[1]), RMul(k, a[2]), RMul(k, a[3])>>
VNeg(a) == <<RNeg(a[1]), RNeg(a[2]), RNeg(a[3])>>
Dot(a, b) == RAdd(RAdd(RMul(a[1], b[1]), RMul(a[2], b[2])), RMul(a[3], b[3]))
\* dot(a, b) with the sign of a zero result, for vectors whose own zeros are
\* +0.0: a product is -0.0 when one factor is +0.0 and the other negative, and
\* the sum x*x' + y*y' + z*z' is -0.0 only when all three products are.
DotSigned(a, b) ==
    IF \A i \in 1..3 : (a[i].n = 0 /\ b[i].n < 0) \/ (a[i].n < 0 /\ b[i].n = 0)
    THEN NegZero
    ELSE Dot(a, b)
Cross(a, b) ==
    << RSub(RMul(a[2], b[3]), RMul(a[3], b[2])),
       RSub(RMul(a[3], b[1]), RMul(a[1], b[3])),
       RSub(RMul(a[1], b[2]), RMul(a[2], b[1])) >>
Magnitude2(a) == Dot(a, a)
Magnitude(a) == RSqrt(Magnitude2(a))
Normalize(a) == VScale(RDiv(R(1), Magnitude(a)), a)


(***************************************************************************)
(* f32 values of the slab test: a finite number, an infinity or NaN.        *)
(***************************************************************************)
Fin(q) == [k |-> "fin", v |-> q]
PInf == [k |-> "pinf"]
NInf == [k |-> "ninf"]
NaN == [k |-> "nan"]

\* x * (1.0 / d) for finite x and d: 1.0 / 0.0 is +inf, and 0.0 * inf is NaN.
MulInv(x, d) ==
    IF d.n # 0 THEN Fin(RMul(x, RDiv(R(1), d)))
    ELSE IF x.n > 0 THEN PInf
    ELSE IF x.n < 0 THEN NInf
    ELSE NaN

\* a < b on f32 values: false when either is NaN.
FLt(a, b) ==
    /\ a.k # "nan" /\ b.k # "nan"
    /\ \/ a.k = "ninf" /\ b.k # "ninf"
       \/ a.k = "fin" /\ b.k = "pinf"
       \/ a.k = "fin" /\ b.k = "fin" /\ RLt(a.v, b.v)
FLe(a, b) ==
    /\ a.k # "nan" /\ b.k # "nan"
    /\ (a.k = b.k /\ a.k # "fin") \/ (a.k = "fin" /\ b.k = "fin" /\ a.v = b.v) \/ FLt(a, b)
\* f32::max and f32::min: when one argument is NaN the other is returned.
FMax(a, b) == IF a.k = "nan" THEN b ELSE IF b.k = "nan" THEN a ELSE IF FLt(a, b) THEN b ELSE a
FMin(a, b) == IF a.k = "nan" THEN b ELSE IF b.k = "nan" THEN a ELSE IF FLt(b, a) THEN b ELSE a

(***************************************************************************)
(* Ray, RayHit.  A hit is [kind |-> "Some", ...]; no hit is None.           *)
(***************************************************************************)
Ray(o, d) == [origin |-> o, direction |-> d]
IsSome(h) == h.kind = "Some"
RayHit(t, p, n, m) ==
    [kind |-> "Some", distance |-> t, hitpoint |-> p, normal |-> n, material |-> m]
DefaultMaterial == "default"

(***************************************************************************)
(* AABB                                                                     *)
(***************************************************************************)
AABB(lo, hi) == [min |-> lo, max |-> hi]
AABB_default == AABB(VZero, VZero)

\* Mutant: the upper corner is taken from the first box alone.
aabb_surrounding_max_of_first(a, b) ==
    AABB( vec3(RMin(a.min[1], b.min[1]), RMin(a.min[2], b.min[2]), RMin(a.min[3], b.min[3])),
          a.max )

aabb_surrounding(a, b) ==
    AABB( vec3(RMin(a.min[1], b.min[1]), RMin(a.min[2], b.min[2]), RMin(a.min[3], b.min[3])),
          vec3(RMax(a.max[1], b.max[1]), RMax(a.max[2], b.max[2]), RMax(a.max[3], b.max[3])) )

\* The slab loop of AABB::intersect_ray from `axis` on, with the interval
\* narrowed so far: TRUE when no axis empties the interval.
RECURSIVE AABB_slabs(_, _, _, _, _)
AABB_slabs(box, ray, axis, tmin, tmax) ==
    IF axis = 3 THEN TRUE
    ELSE
      LET d == ray.direction[axis + 1]
          a0 == MulInv(RSub(box.min[axis + 1], ray.origin[axis + 1]), d)
          a1 == MulInv(RSub(box.max[axis + 1], ray.origin[axis + 1]), d)
          swap == d.n < 0
          t0 == IF swap THEN a1 ELSE a0
          t1 == IF swap THEN a0 ELSE a1
          tmin2 == FMax(t0, tmin)
          tmax2 == FMin(t1, tmax)
      IN  IF FLe(tmax2, tmin2) THEN FALSE
          ELSE AABB_slabs(box, ray, axis + 1, tmin2, tmax2)

AABB_intersect_ray(box, ray, t_min, t_max) ==
    IF AABB_slabs(box, ray, 0, Fin(t_min), Fin(t_max))
    THEN RayHit(R(0), VZero, VZero, DefaultMaterial)
    ELSE None

(***************************************************************************)
(* Triangle and IndexedTriangle (Moller-Trumbore)                           *)
(***************************************************************************)
EPSILON == Rat(1, 10000)

\* Mutant: the third vertex is left out of the box.
TriangleBox_two_vertices(a, b, c) ==
    AABB( vec3(RMin(a[1], b[1]), RMin(a[2], b[2]), RMin(a[3], b[3])),
          vec3(RMax(a[1], b[1]), RMax(a[2], b[2]), RMax(a[3], b[3])) )

TriangleBox(a, b, c) ==
    AABB( vec3(RMin(a[1], RMin(b[1], c[1])), RMin(a[2], RMin(b[2], c[2])),
               RMin(a[3], RMin(b[3], c[3]))),
          vec3(RMax(a[1], RMax(b[1], c[1])), RMax(a[2], RMax(b[2], c[2])),
               RMax(a[3], RMax(b[3], c[3]))) )

Triangle_g(tri, ray) ==
    Dot(VSub(tri.b, tri.a), Cross(ray.direction, VSub(tri.c, tri.a)))
Triangle_u(tri, ray) ==
    LET q == Cross(ray.direction, VSub(tri.c, tri.a))
        f == RDiv(R(1), Triangle_g(tri, ray))
        s == VSub(ray.origin, tri.a)
    IN  RMul(f, Dot(s, q))
Triangle_v(tri, ray) ==
    LET f == RDiv(R(1), Triangle_g(tri, ray))
        s == VSub(ray.origin, tri.a)
        r == Cross(s, VSub(tri.b, tri.a))
    IN  RMul(f, Dot(ray.direction, r))
Triangle_t(tri, ray) ==
    LET f == RDiv(R(1), Triangle_g(tri, ray))
        s == VSub(ray.origin, tri.a)
        r == Cross(s, VSub(tri.b, tri.a))
    IN  RMul(f, Dot(VSub(tri.c, tri.a), r))

\* Mutant: the test u + v > 1 is left out (the parallelogram is accepted).
Triangle_intersect_ray_parallelogram(tri, ray, t_min, t_max) ==
    LET e1 == VSub(tri.b, tri.a)
        e2 == VSub(tri.c, tri.a)
        u == Triangle_u(tri, ray)
        v == Triangle_v(tri, ray)
        t == Triangle_t(tri, ray)
        hitpoint == VAdd(ray.origin, VScale(t, ray.direction))
    IN  IF RLt(RAbs(Triangle_g(tri, ray)), EPSILON) THEN None
        ELSE IF RLt(u, R(0)) THEN None
        ELSE IF RLt(v, R(0)) THEN None
        ELSE IF RLt(t, t_min) \/ RLt(t_max, t) THEN None
        ELSE RayHit(t, hitpoint, Normalize(Cross(e1, e2)), tri.material)

Triangle_intersect_ray(tri, ray, t_min, t_max) ==
    LET e1 == VSub(tri.b, tri.a)
        e2 == VSub(tri.c, tri.a)
        u == Triangle_u(tri, ray)
        v == Triangle_v(tri, ray)
        t == Triangle_t(tri, ray)
        hitpoint == VAdd(ray.origin, VScale(t, ray.direction))
    IN  IF RLt(RAbs(Triangle_g(tri, ray)), EPSILON) THEN None
        ELSE IF RLt(u, R(0)) THEN None
        ELSE IF RLt(v, R(0)) \/ RLt(R(1), RAdd(u, v)) THEN None
        ELSE IF RLt(t, t_min) \/ RLt(t_max, t) THEN None
        ELSE RayHit(t, hitpoint, Normalize(Cross(e1, e2)), tri.material)

Triangle_bounding_box(tri) == TriangleBox(tri.a, tri.b, tri.c)

\* Mesh: positions is the flat array of coordinates (3 per vertex), indices
\* the flat array of vertex indices (3 per triangle); both 0-based in the code.
get_triangle_from_mesh(mesh, idx) ==
    LET x == mesh.indices[idx * 3 + 1]
        y == mesh.indices[idx * 3 + 2]
        z == mesh.indices[idx * 3 + 3]
        P(i) == vec3(R(mesh.positions[i * 3 + 1]), R(mesh.positions[i * 3 + 2]),
                     R(mesh.positions[i * 3 + 3]))
    IN  [a |-> P(x), b |-> P(y), c |-> P(z)]

IndexedTriangle_g(mesh, idx, ray) ==
    LET T == get_triangle_from_mesh(mesh, idx)
    IN  Dot(VSub(T.b, T.a), Cross(ray.direction, VSub(T.c, T.a)))
IndexedTriangle_u(mesh, idx, ray) ==
    LET T == get_triangle_from_mesh(mesh, idx)
        q == Cross(ray.direction, VSub(T.c, T.a))
        f == RDiv(R(1), IndexedTriangle_g(mesh, idx, ray))
        s == VSub(ray.origin, T.a)
    IN  RMul(f, Dot(s, q))
IndexedTriangle_v(mesh, idx, ray) ==
    LET T == get_triangle_from_mesh(mesh, idx)
        f == RDiv(R(1), IndexedTriangle_g(mesh, idx, ray))
        s == VSub(ray.origin, T.a)
        r == Cross(s, VSub(T.b, T.a))
    IN  RMul(f, Dot(ray.direction, r))
IndexedTriangle_t(mesh, idx, ray) ==
    LET T == get_triangle_from_mesh(mesh, idx)
        f == RDiv(R(1), IndexedTriangle_g(mesh, idx, ray))
        s == VSub(ray.origin, T.a)
        r == Cross(s, VSub(T.b, T.a))
    IN  RMul(f, Dot(VSub(T.c, T.a), r))

IndexedTriangle_intersect_ray(mesh, idx, ray, t_min, t_max) ==
    LET T == get_triangle_from_mesh(mesh, idx)
        e1 == VSub(T.b, T.a)
        e2 == VSub(T.c, T.a)
        u == IndexedTriangle_u(mesh, idx, ray)
        v == IndexedTriangle_v(mesh, idx, ray)
        t == IndexedTriangle_t(mesh, idx, ray)
        hitpoint == VAdd(ray.origin, VScale(t, ray.direction))
    IN  IF RLt(RAbs(IndexedTriangle_g(mesh, idx, ray)), EPSILON) THEN None
        ELSE IF RLt(u, R(0)) THEN None
        ELSE IF RLt(v, R(0)) \/ RLt(R(1), RAdd(u, v)) THEN None
        ELSE IF RLt(t, t_min) \/ RLt(t_max, t) THEN None
        ELSE RayHit(t, hitpoint, Normalize(Cross(e1, e2)), DefaultMaterial)

IndexedTriangle_bounding_box(mesh, idx) ==
    LET T == get_triangle_from_mesh(mesh, idx)
    IN  TriangleBox(T.a, T.b, T.c)

(***************************************************************************)
(* Sphere, Plane                                                            *)
(***************************************************************************)
Sphere_intersect_ray(sph, ray, t_min, t_max) ==
    LET f == VSub(ray.origin, sph.center)
        a == Magnitude2(ray.direction)
        b == RMul(R(2), Dot(f, ray.direction))
        c == RSub(Magnitude2(f), RMul(sph.radius, sph.radius))
        d == RSub(RMul(b, b), RMul(R(4), RMul(a, c)))
        t == RDiv(RSub(RNeg(b), RSqrt(d)), RMul(R(2), a))
        hitpoint == VAdd(ray.origin, VScale(t, ray.direction))
    IN  IF RLt(d, R(0)) THEN None
        ELSE IF RLt(t, t_min) \/ RLt(t_max, t) THEN None
        ELSE RayHit(t, hitpoint, Normalize(VSub(hitpoint, sph.center)), sph.material)

\* Mutant: only the lower end of the interval is tested.
Plane_intersect_ray_no_t_max(pl, ray, t_min, t_max) ==
    LET to_ray_origin == VSub(ray.origin, pl.point)
        origin_dist == DotSigned(to_ray_origin, pl.normal)
        n == VScale(RSignum(origin_dist), pl.normal)
        d == Dot(ray.direction, n)
        t == RDiv(RAbs(origin_dist), RAbs(d))
        hitpoint == VAdd(ray.origin, VScale(t, ray.direction))
    IN  IF RLe(R(0), d) THEN None
        ELSE IF RLt(t, t_min) THEN None
        ELSE RayHit(t, hitpoint, n, pl.material)

Plane_intersect_ray(pl, ray, t_min, t_max) ==
    LET to_ray_origin == VSub(ray.origin, pl.point)
        origin_dist == DotSigned(to_ray_origin, pl.normal)
        n == VScale(RSignum(origin_dist), pl.normal)
        d == Dot(ray.direction, n)
        t == RDiv(RAbs(origin_dist), RAbs(d))
        hitpoint == VAdd(ray.origin, VScale(t, ray.direction))
    IN  IF RLe(R(0), d) THEN None
        ELSE IF RLt(t, t_min) \/ RLt(t_max, t) THEN None
        ELSE RayHit(t, hitpoint, n, pl.material)

(***************************************************************************)
(* BVHNode, StaticMesh                                                      *)
(***************************************************************************)
\* A node is held in an Option<Box<BVHNode>>: kind "Some" marks a present node.
BVHNode_default ==
    [kind |-> "Some", aabb |-> AABB_default, left |-> None, right |-> None, primitive |-> None]
IndexedTriangle(i) == [kind |-> "Some", idx |-> i]

RECURSIVE BVHNode_intersect_ray(_, _, _, _, _)
BVHNode_intersect_ray(node, mesh, ray, t_min, t_max) ==
    IF IsSome(node.primitive)
    THEN IndexedTriangle_intersect_ray(mesh, node.primitive.idx, ray, t_min, t_max)
    ELSE
      IF IsSome(AABB_intersect_ray(node.aabb, ray, t_min, t_max))
      THEN
        LET left_hit == IF IsSome(node.left)
                        THEN BVHNode_intersect_ray(node.left, mesh, ray, t_min, t_max)
                        ELSE None
            best_t == IF IsSome(left_hit) THEN left_hit.distance ELSE t_max
            right_hit == IF IsSome(node.right)
                         THEN BVHNode_intersect_ray(node.right, mesh, ray, t_min, best_t)
                         ELSE None
        IN  IF IsSome(right_hit) THEN right_hit ELSE left_hit
      ELSE None

StaticMesh_intersect_ray(root, mesh, material, ray, t_min, t_max) ==
    IF IsSome(root)
    THEN LET hit == BVHNode_intersect_ray(root, mesh, ray, t_min, t_max)
         IN  IF IsSome(hit) THEN [hit EXCEPT !.material = material] ELSE None
    ELSE None


(***************************************************************************)
(* Bounds and input sets                                                    *)
(***************************************************************************)
MaxTris == 3        \* triangles per mesh
MaxCallDepth == 4   \* frames of build_bvh_helper before the stack is exhausted
MaxObjects == 2     \* top-level objects of a scene

\* Vertex buffer shared by every mesh: v0..v8, three coordinates each.
MeshPositions ==
    << 0, 0, 0,   4, 0, 0,   0, 4, 0,   4, 4, 0,
       0, 0, 3,   4, 0, 3,
       0, 0, -2,  4, 0, -2,  0, 4, -2 >>

\* Triangles a mesh is assembled from (vertex index triples).
TriangleIndices == { <<0, 1, 2>>, <<1, 3, 2>>, <<4, 5, 2>>, <<6, 8, 7>> }

RECURSIVE Flatten(_)
Flatten(ss) == IF ss = <<>> THEN <<>> ELSE Head(ss) \o Flatten(Tail(ss))

SeqsUpTo(S, n) == UNION { [1..k -> S] : k \in 0..n }

Meshes(n) ==
    { [positions |-> MeshPositions, indices |-> Flatten(ts)] : ts \in SeqsUpTo(TriangleIndices, n) }

Rays ==
    { Ray(V(1, 1, 5), V(0, 0, -1)),
      Ray(V(1, 1, -5), V(0, 0, 1)),
      Ray(V(3, 3, 5), V(0, 0, -1)),
      Ray(V(0, 0, 4), V(1, 1, -2)),
      Ray(V(1, 1, 5), V(0, 0, 1)),
      Ray(V(5, 1, 0), V(-1, 0, 0)),
      Ray(V(1, 1, 5), V(0, 0, -2)),
      Ray(V(1, -1, 2), V(0, 1, 0)) }

Intervals == { <<R(0), R(100)>>, <<R(0), R(3)>>, <<R(5), R(100)>> }

MeshObject == [kind |-> "StaticMesh", material |-> "mesh"]

MeshOf(ts) == [positions |-> MeshPositions, indices |-> Flatten(ts)]

\* The meshes of the scenes that mix a mesh with other primitives.
SceneMeshes ==
    { MeshOf(<< <<4, 5, 2>> >>),
      MeshOf(<< <<0, 1, 2>>, <<4, 5, 2>>, <<6, 8, 7>> >>) }

Primitives ==
    { [kind |-> "Sphere", center |-> V(1, 1, 0), radius |-> R(2), material |-> "s1"],
      [kind |-> "Plane", point |-> V(0, 0, 0), normal |-> V(0, 0, 1), material |-> "p1"],
      [kind |-> "Plane", point |-> V(0, 0, 0), normal |-> V(0, 1, 0), material |-> "p2"],
      [kind |-> "Triangle", a |-> V(0, 0, 0), b |-> V(4, 0, 0), c |-> V(0, 4, 0),
       material |-> "t1"],
      [kind |-> "Triangle", a |-> V(4, 0, 0), b |-> V(4, 4, 0), c |-> V(0, 4, 0),
       material |-> "t2"] }

(***************************************************************************)
(* State                                                                    *)
(***************************************************************************)
VARIABLES
    mesh,       \* StaticMesh.mesh: the shared vertex and index buffers
    bvh_root,   \* StaticMesh.bvh_root: None until build_bvh has run
    tris,       \* build_bvh's temporary array of triangles (their idx)
    stack,      \* the frames of build_bvh_helper, innermost last
    build,      \* "new", "building", "done", or "overflow" (stack exhausted)
    objects,    \* Scene.objects, in order
    query,      \* the (ray, t_min, t_max) of the running Scene::intersect_ray
    scan_idx,   \* how many objects its loop has visited
    obj_hit,    \* what the object visited last returned
    best_hit,   \* the loop's best_hit
    scan,       \* "idle", "scanning", "returned"
    box_in,     \* three boxes handed to AABB::aabb_surrounding
    box_out,    \* the boxes it returned for them
    camera,     \* Camera.path_depth and Camera.path_samples
    calls,      \* the frames of shade_ray, innermost last
    shade,      \* "idle", "running", "done"
    radiance,   \* what the outermost shade_ray returned
    queried,    \* the recursion depths at which the scene or a material was queried
    invocations, \* how many times shade_ray was entered
    screen,     \* Camera.screen_width and Camera.screen_height
    task_x,     \* per row task: the pixels of the row it has finished
    img,        \* the image buffer, one byte per slot
    writers,    \* per slot, the tasks that wrote it, in order
    render,     \* "running", "done"
    cam,        \* the Camera's pose, projection, screen size and sample count
    gen,        \* Camera::generate_rays: "idle", "running", "returned"
    gen_call,   \* its arguments (screen_x, screen_y) and the stream of its rng
    offsets,    \* the subpixel_offset of every pass of its loop so far
    rays,       \* its vector of rays
    lighting,   \* Scene.point_light_pos and ambient, Camera.eyepoint and max_trace_dist
    phong       \* what the last phong_shade_ray computed and returned

meshVars == <<mesh, bvh_root, tris, stack, build>>
sceneVars == <<objects, query, scan_idx, obj_hit, best_hit, scan>>
boxVars == <<box_in, box_out>>
shadeVars == <<camera, calls, shade, radiance, queried, invocations>>
renderVars == <<screen, task_x, img, writers, render>>
camVars == <<cam, gen, gen_call, offsets, rays>>
phongVars == <<lighting, phong>>
vars == <<meshVars, sceneVars, boxVars, shadeVars, renderVars, camVars, phongVars>>

NumTris(m) == Len(m.indices) \div 3

(***************************************************************************)
(* StaticMesh::build_bvh and build_bvh_helper                               *)
(***************************************************************************)
Frame(start, end) ==
    [start |-> start, end |-> end, pc |-> "enter", axis |-> 0, mid |-> start,
     left |-> None, right |-> None]

\* The key the comparator sorts by: the box minimum on the chosen axis.
SortKey(m, idx, axis) == IndexedTriangle_bounding_box(m, idx).min[axis + 1]

\* x inserted into the sorted sequence s behind every element that is not
\* greater (a stable sort keeps equal elements in their order).
RECURSIVE InsertSorted(_, _, _, _)
InsertSorted(m, axis, s, x) ==
    IF s = <<>> THEN <<x>>
    ELSE IF RLt(SortKey(m, x, axis), SortKey(m, Head(s), axis)) THEN <<x>> \o s
    ELSE <<Head(s)>> \o InsertSorted(m, axis, Tail(s), x)

RECURSIVE StableSort(_, _, _)
StableSort(m, axis, s) ==
    IF s = <<>> THEN <<>>
    ELSE InsertSorted(m, axis, StableSort(m, axis, SubSeq(s, 1, Len(s) - 1)), s[Len(s)])

\* tris[start..end].sort_by(comparator)
SortRange(m, axis, ts, start, end) ==
    SubSeq(ts, 1, start) \o StableSort(m, axis, SubSeq(ts, start + 1, end))
        \o SubSeq(ts, end + 1, Len(ts))

\* Mutant: the split point is rounded up.
Mid_rounded_up(start, end) == start + (end - start + 1) \div 2

Mid(start, end) == start + (end - start) \div 2

\* Mutant: every leaf holds triangle 0.
LeafNode_first_triangle(m, start) ==
    [kind |-> "Some", aabb |-> IndexedTriangle_bounding_box(m, 0),
     left |-> None, right |-> None, primitive |-> IndexedTriangle(0)]

LeafNode(m, start) ==
    [kind |-> "Some", aabb |-> IndexedTriangle_bounding_box(m, start),
     left |-> None, right |-> None, primitive |-> IndexedTriangle(start)]

InteriorNode(left, right) ==
    [kind |-> "Some", aabb |-> aabb_surrounding(left.aabb, right.aabb),
     left |-> left, right |-> right, primitive |-> None]

\* A finished call hands its node to its caller, which goes on: after the left
\* child it calls the right one, after the right child it joins; the outermost
\* call returns to build_bvh, which stores the root and drops tris.
Deliver(node, rest) ==
    IF rest = <<>>
    THEN /\ bvh_root' = node
         /\ build' = "done"
         /\ tris' = <<>>
         /\ stack' = <<>>
    ELSE LET k == Len(rest)
             caller == rest[k]
         IN  /\ UNCHANGED <<bvh_root, build, tris>>
             /\ IF caller.pc = "left"
                THEN stack' = Append([rest EXCEPT ![k] = [caller EXCEPT !.left = node, !.pc = "right"]],
                                     Frame(caller.mid, caller.end))
                ELSE stack' = [rest EXCEPT ![k] = [caller EXCEPT !.right = node, !.pc = "join"]]

BuildBvh ==
    /\ build \in {"new", "done"}
    /\ scan # "scanning"
    /\ IF IsSome(bvh_root)
       THEN UNCHANGED meshVars
       ELSE /\ tris' = [i \in 1..NumTris(mesh) |-> i - 1]
            /\ stack' = <<Frame(0, NumTris(mesh))>>
            /\ build' = "building"
            /\ UNCHANGED <<mesh, bvh_root>>
    /\ UNCHANGED <<sceneVars, boxVars, shadeVars, renderVars, camVars, phongVars>>

HelperLeaf ==
    /\ build = "building"
    /\ LET k == Len(stack)
           fr == stack[k]
       IN  /\ fr.pc = "enter"
           /\ fr.end - fr.start = 1
           /\ Deliver(LeafNode(mesh, fr.start), SubSeq(stack, 1, k - 1))
    /\ UNCHANGED <<mesh>>
    /\ UNCHANGED <<sceneVars, boxVars, shadeVars, renderVars, camVars, phongVars>>

HelperSplit ==
    /\ build = "building"
    /\ LET k == Len(stack)
           fr == stack[k]
       IN  /\ fr.pc = "enter"
           /\ fr.end - fr.start # 1
           /\ \E axis \in 0..2 :
                /\ tris' = SortRange(mesh, axis, tris, fr.start, fr.end)
                /\ IF k >= MaxCallDepth
                   THEN /\ build' = "overflow"
                        /\ UNCHANGED stack
                   ELSE /\ stack' = Append([stack EXCEPT ![k] =
                                              [fr EXCEPT !.pc = "left", !.axis = axis,
                                                         !.mid = Mid(fr.start, fr.end)]],
                                           Frame(fr.start, Mid(fr.start, fr.end)))
                        /\ UNCHANGED build
    /\ UNCHANGED <<mesh, bvh_root>>
    /\ UNCHANGED <<sceneVars, boxVars, shadeVars, renderVars, camVars, phongVars>>

HelperJoin ==
    /\ build = "building"
    /\ LET k == Len(stack)
           fr == stack[k]
       IN  /\ fr.pc = "join"
           /\ Deliver(InteriorNode(fr.left, fr.right), SubSeq(stack, 1, k - 1))
    /\ UNCHANGED <<mesh>>
    /\ UNCHANGED <<sceneVars, boxVars, shadeVars, renderVars, camVars, phongVars>>

(***************************************************************************)
(* Scene::intersect_ray                                                     *)
(***************************************************************************)
Object_intersect_ray(obj, ray, t_min, t_max) ==
    CASE obj.kind = "Sphere" -> Sphere_intersect_ray(obj, ray, t_min, t_max)
      [] obj.kind = "Plane" -> Plane_intersect_ray(obj, ray, t_min, t_max)
      [] obj.kind = "Triangle" -> Triangle_intersect_ray(obj, ray, t_min, t_max)
      [] obj.kind = "StaticMesh" ->
            StaticMesh_intersect_ray(bvh_root, mesh, obj.material, ray, t_min, t_max)

\* The loop body's update of best_hit with a hit an object reported.
\* Mutant: <= in place of <, so that a later object wins a tie.
KeepCloser_or_equal(current, hit) ==
    IF ~IsSome(current) THEN hit
    ELSE IF RLe(hit.distance, current.distance) THEN hit
    ELSE current

KeepCloser(current, hit) ==
    IF ~IsSome(current) THEN hit
    ELSE IF RLt(hit.distance, current.distance) THEN hit
    ELSE current

\* The loop body's update of best_hit with what an object answered.
UpdateBest(best, hit) == IF IsSome(hit) THEN KeepCloser(best, hit) ELSE best

SceneIntersectBegin ==
    /\ build = "done"
    /\ scan # "scanning"
    /\ \E ray \in Rays, iv \in Intervals :
         query' = [ray |-> ray, t_min |-> iv[1], t_max |-> iv[2]]
    /\ scan_idx' = 0
    /\ obj_hit' = None
    /\ best_hit' = None
    /\ scan' = "scanning"
    /\ UNCHANGED <<objects>>
    /\ UNCHANGED <<meshVars, boxVars, shadeVars, renderVars, camVars, phongVars>>

SceneIntersectStep ==
    /\ scan = "scanning"
    /\ scan_idx < Len(objects)
    /\ obj_hit' = Object_intersect_ray(objects[scan_idx + 1], query.ray, query.t_min, query.t_max)
    /\ best_hit' = UpdateBest(best_hit, obj_hit')
    /\ scan_idx' = scan_idx + 1
    /\ UNCHANGED <<objects, query, scan>>
    /\ UNCHANGED <<meshVars, boxVars, shadeVars, renderVars, camVars, phongVars>>

SceneIntersectReturn ==
    /\ scan = "scanning"
    /\ scan_idx = Len(objects)
    /\ scan' = "returned"
    /\ UNCHANGED <<objects, query, scan_idx, obj_hit, best_hit>>
    /\ UNCHANGED <<meshVars, boxVars, shadeVars, renderVars, camVars, phongVars>>

(***************************************************************************)
(* AABB::aabb_surrounding applied to boxes, as build_bvh_helper nests it    *)
(***************************************************************************)
BoxInputs ==
    { IndexedTriangle_bounding_box(MeshOf(<<t>>), 0) : t \in TriangleIndices }
        \cup { AABB_default, AABB(V(1, 1, -1), V(2, 5, 1)), AABB(V(-3, -1, 2), V(6, 0, 4)),
               AABB(V(2, 2, 2), V(1, 1, 1)) }

Surround ==
    /\ box_out = None
    /\ LET a == box_in[1]
           b == box_in[2]
           c == box_in[3]
       IN  box_out' = [kind |-> "Some",
                       ab |-> aabb_surrounding(a, b),
                       ba |-> aabb_surrounding(b, a),
                       ab_c |-> aabb_surrounding(aabb_surrounding(a, b), c),
                       a_bc |-> aabb_surrounding(a, aabb_surrounding(b, c))]
    /\ UNCHANGED box_in
    /\ UNCHANGED <<meshVars, sceneVars, shadeVars, renderVars, camVars, phongVars>>

\* The union goes on as one operand of the next unions.
SurroundNext ==
    /\ box_out # None
    /\ \E b \in BoxInputs, c \in BoxInputs : box_in' = <<box_out.ab_c, b, c>>
    /\ box_out' = None
    /\ UNCHANGED <<meshVars, sceneVars, shadeVars, renderVars, camVars, phongVars>>

(***************************************************************************)
(* Scene::shade_ray.  The scene and the materials are not part of the       *)
(* integrator: whether a ray hits, what the hit carries and what scatter    *)
(* returns are drawn from small sets.                                       *)
(***************************************************************************)
MaxPathDepth == 2     \* Camera.path_depth is drawn from 0..MaxPathDepth
MaxPathSamples == 2   \* Camera.path_samples is drawn from 0..MaxPathSamples

\* A colour is a Vec3 of rationals, or NaN in every channel.
NaNColor == <<NaN, NaN, NaN>>
ColorAdd(a, b) == IF a = NaNColor \/ b = NaNColor THEN NaNColor ELSE VAdd(a, b)
MulElementWise(a, b) == <<RMul(a[1], b[1]), RMul(a[2], b[2]), RMul(a[3], b[3])>>
\* integral /= path_samples as f32: 0.0 / 0.0 is NaN (integral is zero when
\* there are no samples).
ColorDivSamples(c, k) ==
    IF c = NaNColor \/ k = 0 THEN NaNColor ELSE VScale(Rat(1, k), c)

background_color(v) == VZero

\* What a hit carries into shade_ray: the material's emission and the normal.
ShadeHits ==
    { [emission |-> VZero, normal |-> V(0, 0, 1)],
      [emission |-> V(7, 7, 7), normal |-> VZero] }
\* What Material::scatter returns: the new ray's direction, brdf term and pdf.
Scatters ==
    { [direction |-> V(0, 0, 2), brdf_term |-> V(1, 1, 1), pdf |-> R(1)],
      [direction |-> V(1, 0, 0), brdf_term |-> <<R(1), Rat(1, 2), R(0)>>, pdf |-> Rat(1, 2)] }

\* Mutant: the recursion stops one level late.
AtDepthLimit_late(recursion_depth, path_depth) == recursion_depth > path_depth

AtDepthLimit(recursion_depth, path_depth) == recursion_depth >= path_depth

\* Mutant: the recursive call stays at its caller's depth.
SubcallDepth_same(recursion_depth) == recursion_depth

\* self.shade_ray(&new_ray, recursion_depth+1)
SubcallDepth(recursion_depth) == recursion_depth + 1

dot_term(hit, sc) ==
    IF RLt(R(0), Magnitude2(hit.normal))
    THEN RClamp(RAbs(Dot(sc.direction, hit.normal)), R(0), R(1))
    ELSE R(1)

\* integral += dot_term * (brdf_term (*) incoming_light) / pdf
Accumulate(integral, hit, sc, incoming_light) ==
    IF incoming_light = NaNColor \/ integral = NaNColor THEN NaNColor
    ELSE VAdd(integral,
              VScale(RDiv(R(1), sc.pdf),
                     VScale(dot_term(hit, sc), MulElementWise(sc.brdf_term, incoming_light))))

ShadeFrame(depth) ==
    [depth |-> depth, pc |-> "entry", hit |-> None, i |-> 0, integral |-> VZero, sc |-> None]

\* A shade_ray call returns `value`: to render_to_image when it is the
\* outermost, else into its caller's loop, which accumulates it.
ShadeReturn(value, rest) ==
    IF rest = <<>>
    THEN /\ radiance' = value
         /\ shade' = "done"
         /\ calls' = <<>>
    ELSE LET k == Len(rest)
             caller == rest[k]
         IN  /\ calls' = [rest EXCEPT ![k] =
                            [caller EXCEPT !.integral = Accumulate(caller.integral, caller.hit,
                                                                   caller.sc, value),
                                           !.i = caller.i + 1,
                                           !.sc = None,
                                           !.pc = "loop"]]
             /\ UNCHANGED <<radiance, shade>>

\* render_to_image calls shade_ray(ray, 0).
ShadeCall ==
    /\ shade = "idle"
    /\ shade' = "running"
    /\ calls' = <<ShadeFrame(0)>>
    /\ invocations' = invocations + 1
    /\ UNCHANGED <<camera, radiance, queried>>
    /\ UNCHANGED <<meshVars, sceneVars, boxVars, renderVars, camVars, phongVars>>

\* Entry of shade_ray: the depth test, then the scene query.
ShadeEntry ==
    /\ shade = "running"
    /\ LET k == Len(calls)
           fr == calls[k]
           rest == SubSeq(calls, 1, k - 1)
       IN  /\ fr.pc = "entry"
           /\ IF AtDepthLimit(fr.depth, camera.path_depth)
              THEN /\ ShadeReturn(background_color(VZero), rest)
                   /\ UNCHANGED queried
              ELSE /\ queried' = queried \cup {fr.depth}
                   /\ \/ ShadeReturn(background_color(VZero), rest)
                      \/ \E hit \in ShadeHits :
                           /\ calls' = [calls EXCEPT ![k] = [fr EXCEPT !.hit = hit, !.pc = "loop"]]
                           /\ UNCHANGED <<radiance, shade>>
    /\ UNCHANGED <<camera, invocations>>
    /\ UNCHANGED <<meshVars, sceneVars, boxVars, renderVars, camVars, phongVars>>

\* One pass of the sample loop up to the recursive call.
ShadeScatter ==
    /\ shade = "running"
    /\ LET k == Len(calls)
           fr == calls[k]
       IN  /\ fr.pc = "loop"
           /\ fr.i < camera.path_samples
           /\ \E sc \in Scatters :
                calls' = Append([calls EXCEPT ![k] = [fr EXCEPT !.sc = sc, !.pc = "wait"]],
                                ShadeFrame(SubcallDepth(fr.depth)))
           /\ queried' = queried \cup {fr.depth}
    /\ invocations' = invocations + 1
    /\ UNCHANGED <<camera, radiance, shade>>
    /\ UNCHANGED <<meshVars, sceneVars, boxVars, renderVars, camVars, phongVars>>

\* The loop is over: average, add the emission, return.
ShadeFinish ==
    /\ shade = "running"
    /\ LET k == Len(calls)
           fr == calls[k]
       IN  /\ fr.pc = "loop"
           /\ fr.i = camera.path_samples
           /\ ShadeReturn(ColorAdd(fr.hit.emission,
                                   ColorDivSamples(fr.integral, camera.path_samples)),
                          SubSeq(calls, 1, k - 1))
    /\ UNCHANGED <<camera, queried, invocations>>
    /\ UNCHANGED <<meshVars, sceneVars, boxVars, renderVars, camVars, phongVars>>

(***************************************************************************)
(* Scene::render_to_image: one task per chunk of screen_width * 3 bytes     *)
(***************************************************************************)
MaxWidth == 3    \* Camera.screen_width is drawn from 1..MaxWidth
MaxHeight == 3   \* Camera.screen_height is drawn from 0..MaxHeight
Gamma == 2       \* Camera.gamma

\* The averaged colour of a pixel stands for what generate_rays and the
\* shading of its samples produce; it depends on the pixel alone here.
AveragedColors ==
    << <<Rat(1, 4), R(0), R(1)>>,
       <<Rat(5, 4), R(0), Rat(3, 4)>>,
       <<R(2), Rat(3, 2), R(0)>>,
       <<R(0), Rat(1, 16), Rat(9, 16)>>,
       <<Rat(17, 16), Rat(71, 72), R(0)>> >>
AveragedColor(x, y) == AveragedColors[((x + 2 * y) % Len(AveragedColors)) + 1]

\* Mutant: the excess of a channel is read from the colour being updated.
RECURSIVE Desaturate_rebleed(_, _, _)
Desaturate_rebleed(tmp, final_color, i) ==
    IF i = 3 THEN final_color
    ELSE LET d == RSub(final_color[i + 1], R(1))
         IN  IF RLt(R(0), d)
             THEN Desaturate_rebleed(tmp,
                     [c \in 1..3 |-> IF c = i + 1 THEN final_color[c]
                                                  ELSE RAdd(final_color[c], d)],
                     i + 1)
             ELSE Desaturate_rebleed(tmp, final_color, i + 1)

\* The excess of every channel over 1.0, taken from the colour as averaged, is
\* added to the two other channels.
RECURSIVE Desaturate(_, _, _)
Desaturate(tmp, final_color, i) ==
    IF i = 3 THEN final_color
    ELSE LET d == RSub(tmp[i + 1], R(1))
         IN  IF RLt(R(0), d)
             THEN Desaturate(tmp,
                     [final_color EXCEPT ![((i + 1) % 3) + 1] = RAdd(@, d),
                                         ![((i + 2) % 3) + 1] = RAdd(@, d)],
                     i + 1)
             ELSE Desaturate(tmp, final_color, i + 1)

\* f32::powf(v, 1.0 / gamma) for gamma 1 and 2.
GammaCorrect(v, gamma) == IF gamma = 1 THEN v ELSE RSqrt(v)
\* `as u8`: truncation, saturating at 0 and 255.
AsU8(q) == IF q.n < 0 THEN 0 ELSE IF q.n \div q.d > 255 THEN 255 ELSE q.n \div q.d
Quantize(v, gamma) ==
    AsU8(RMul(GammaCorrect(RClamp(v, R(0), R(1)), gamma), Rat(2559999, 10000)))

ChunkSize(width) == width * 3
NumChunks(len, size) == (len + size - 1) \div size
ImageLen(scr) == scr.width * scr.height * 3
\* The slot of the image buffer behind element k of chunk y.
ChunkSlot(scr, y, k) == y * ChunkSize(scr.width) + k

\* Mutant: the pixel index is not scaled by the three channels.
PixelElement_unscaled(x, channel) == x + channel

PixelElement(x, channel) == 3 * x + channel

\* The loop body of the task of chunk y for its next pixel.
RenderPixel(y) ==
    /\ render = "running"
    /\ task_x[y] < screen.width
    /\ LET x == task_x[y]
           avg == AveragedColor(x, y)
           final_color == Desaturate(avg, avg, 0)
           slot(c) == ChunkSlot(screen, y, PixelElement(x, c))
           put(f, i, v) == [f EXCEPT ![i] = v]
       IN  /\ img' = put(put(put(img, slot(0), Quantize(final_color[1], Gamma)),
                              slot(1), Quantize(final_color[2], Gamma)),
                          slot(2), Quantize(final_color[3], Gamma))
           /\ writers' = put(put(put(writers, slot(0), Append(writers[slot(0)], y)),
                                  slot(1), Append(writers[slot(1)], y)),
                              slot(2), Append(writers[slot(2)], y))
    /\ task_x' = [task_x EXCEPT ![y] = @ + 1]
    /\ UNCHANGED <<screen, render>>
    /\ UNCHANGED <<meshVars, sceneVars, boxVars, shadeVars, camVars, phongVars>>

\* for_each returns when every task is through its row.
RenderFinish ==
    /\ render = "running"
    /\ \A y \in DOMAIN task_x : task_x[y] = screen.width
    /\ render' = "done"
    /\ UNCHANGED <<screen, task_x, img, writers>>
    /\ UNCHANGED <<meshVars, sceneVars, boxVars, shadeVars, camVars, phongVars>>

(***************************************************************************)
(* Camera::generate_rays                                                    *)
(***************************************************************************)
MaxAASamples == 4   \* Camera.aa_sample_count is drawn from 0..MaxAASamples

\* A value the rational arithmetic cannot hold (a square root of a non-square)
\* is kept as the term that computes it.
Exact(v) == [exact |-> TRUE, v |-> v]
Inexact(term) == [exact |-> FALSE, v |-> term]

\* The position of the leading bit of n >= 1.
RECURSIVE Log2Floor(_)
Log2Floor(n) == IF n < 2 THEN 0 ELSE 1 + Log2Floor(n \div 2)

\* `n as f32` for an integer n >= 0: exact below 2^24, above it the nearest
\* multiple of the spacing of f32 at n, ties to the even one.
U32AsF32(n) ==
    IF n < 2^24 THEN n
    ELSE LET q == 2^(Log2Floor(n) - 23)
             lo == n \div q
             rem == n % q
         IN  IF 2 * rem > q \/ (2 * rem = q /\ lo % 2 = 1) THEN (lo + 1) * q ELSE lo * q

\* The integer part of the exact square root of m <= 2^32:
\* r * r <= m < (r + 1) * (r + 1).
ISqrtFloor(m) ==
    CHOOSE r \in 0..(IF m < 65536 THEN m ELSE 65536) :
        r * r <= m /\ m - r * r <= 2 * r

\* rootn as u32, for rootn = (aa_sample_count as f32).sqrt(): the root is
\* rounded to f32 before it is truncated, which lifts it to the next integer
\* when the exact root lies within half a spacing below that integer.  For the
\* k of the first branch `k as f32` is 2^31, whose root is 46340.95...; they
\* are set apart because 2^31 is one above the largest integer of the checker.
FloorSqrt(k) ==
    LET m == U32AsF32(k)
        r == ISqrtFloor(m)
        below == (2 * r + 1) - (m - r * r)
    IN  IF k >= 2147483584 /\ k <= 2147483647 THEN 46340
        ELSE IF r >= 4096 /\ below * 2^(23 - Log2Floor(r)) < r + 1 THEN r + 1 ELSE r

NormalizeVal(a) ==
    IF a.exact /\ Magnitude2(a.v) # R(0) /\ RIsSquare(Magnitude2(a.v))
    THEN Exact(Normalize(a.v))
    ELSE Inexact([op |-> "normalize", arg |-> a])
ScaleVal(k, a) ==
    IF a.exact THEN Exact(VScale(k, a.v)) ELSE Inexact([op |-> "scale", k |-> k, arg |-> a])
SubVal(a, b) ==
    IF a.exact THEN Exact(VSub(a.v, b)) ELSE Inexact([op |-> "sub", arg |-> a, by |-> b])

\* Matrix3::from_cols(c0, c1, c2) * v
MatMul(m, v) == VAdd(VAdd(VScale(v[1], m[1]), VScale(v[2], m[2])), VScale(v[3], m[3]))
MatMulVal(m, a) ==
    IF a.exact THEN Exact(MatMul(m, a.v)) ELSE Inexact([op |-> "rotate", m |-> m, arg |-> a])

Rotation(c) == <<Normalize(Cross(c.view_dir, c.up)), c.up, VNeg(c.view_dir)>>

pixel_size(c) == RDiv(R(1), R(c.screen_height))

\* (subpixel_x, subpixel_y) of sample i
Subpixel(i, n) == <<i \div FloorSqrt(n), i % FloorSqrt(n)>>

\* (subpixel - 0.5*rootn)*pixel_size/rootn + (rand - 0.5*n)*pixel_size/n
OffsetAxis(subpixel, rand, n, ps) ==
    RAdd(RDiv(RMul(RSub(R(subpixel), RMul(Rat(1, 2), R(FloorSqrt(n)))), ps), R(FloorSqrt(n))),
         RDiv(RMul(RSub(R(rand), RMul(Rat(1, 2), R(n))), ps), R(n)))

subpixel_offset(c, i, rand) ==
    LET n == c.aa_sample_count
        cell == Subpixel(i, n)
    IN  IF IsSquare(n)
        THEN Exact(<<OffsetAxis(cell[1], rand[1], n, pixel_size(c)),
                     OffsetAxis(cell[2], rand[2], n, pixel_size(c))>>)
        ELSE Inexact([op |-> "subpixel_offset", cell |-> cell, rand |-> rand])

cam_space_pixel_center(c, x, y, off) ==
    IF off.exact
    THEN Exact(vec3(
            RAdd(RMul(pixel_size(c),
                      RAdd(RSub(R(x), RMul(Rat(1, 2), R(c.screen_width))), Rat(1, 2))),
                 off.v[1]),
            RAdd(RMul(pixel_size(c),
                      RSub(RAdd(Rat(1, 2), RMul(Rat(1, 2), R(c.screen_height))), R(y))),
                 off.v[2]),
            RNeg(c.focal_length)))
    ELSE Inexact([op |-> "pixel_center", x |-> x, y |-> y, off |-> off])

\* vec3(cam_space_pixel_center.x, cam_space_pixel_center.y, 0.0)
OnImagePlane(center) ==
    IF center.exact THEN Exact(vec3(center.v[1], center.v[2], R(0)))
    ELSE Inexact([op |-> "xy", arg |-> center])

\* The ray of one pass of the loop, for the pass's offset and lens sample.
CameraRay(c, x, y, off, disk) ==
    LET center == cam_space_pixel_center(c, x, y, off)
        focus_plane_pixel_center == ScaleVal(c.focus_dist, NormalizeVal(center))
        lens_origin == VScale(c.lens_radius, disk)
        rotation == Rotation(c)
    IN  IF c.projection_mode = "Orthographic"
        THEN Ray(OnImagePlane(center), MatMulVal(rotation, Exact(c.view_dir)))
        ELSE Ray(Exact(VAdd(c.eyepoint, MatMul(rotation, lens_origin))),
                 MatMulVal(rotation,
                           NormalizeVal(SubVal(focus_plane_pixel_center, lens_origin))))

\* Points rand_disk_vec can return.
DiskSamples == { V(0, 0, 0), V(0, -1, 0) }

\* The rng of one call: a stream gives sample i the pair (rand_x, rand_y); over
\* the n*n streams every sample gets every pair of 0..n-1.
RngStreams(n) == IF n = 0 THEN { <<0, 0>> } ELSE (0..(n - 1)) \X (0..(n - 1))
RandPair(stream, i, n) == <<(stream[1] + i) % n, (stream[2] + 2 * i) % n>>

CameraPoses ==
    { [view_dir |-> V(0, 0, -1), up |-> V(0, 1, 0)],
      [view_dir |-> V(1, 0, 0), up |-> V(0, 1, 0)],
      [view_dir |-> V(0, 0, -2), up |-> V(0, 1, 0)] }

Cameras(counts) ==
    { [eyepoint |-> V(0, 2, 5), view_dir |-> pose.view_dir, up |-> pose.up,
       projection_mode |-> mode, screen_width |-> 2, screen_height |-> 2,
       focal_length |-> R(1), focus_dist |-> R(5), lens_radius |-> Rat(1, 2),
       aa_sample_count |-> n] :
         pose \in CameraPoses, mode \in {"Orthographic", "Perspective"}, n \in counts }

\* Mutant: the loop runs over the cells of the rootn x rootn grid.
MoreSamples_grid_cells(i, aa_sample_count) ==
    i < FloorSqrt(aa_sample_count) * FloorSqrt(aa_sample_count)

\* for i in 0..self.aa_sample_count
MoreSamples(i, aa_sample_count) == i < aa_sample_count

GenerateRaysCall ==
    /\ gen \in {"idle", "returned"}
    /\ \E x \in 0..(cam.screen_width - 1), y \in 0..(cam.screen_height - 1),
          stream \in RngStreams(cam.aa_sample_count) :
            gen_call' = [screen_x |-> x, screen_y |-> y, stream |-> stream]
    /\ rays' = <<>>
    /\ offsets' = <<>>
    /\ gen' = "running"
    /\ UNCHANGED cam
    /\ UNCHANGED <<meshVars, sceneVars, boxVars, shadeVars, renderVars, phongVars>>

\* One pass of the loop.
GenerateRay ==
    /\ gen = "running"
    /\ MoreSamples(Len(rays), cam.aa_sample_count)
    /\ LET i == Len(rays)
           off == subpixel_offset(cam, i, RandPair(gen_call.stream, i, cam.aa_sample_count))
       IN  /\ offsets' = Append(offsets, off)
           /\ \E disk \in DiskSamples :
                rays' = Append(rays, CameraRay(cam, gen_call.screen_x, gen_call.screen_y, off, disk))
    /\ UNCHANGED <<cam, gen, gen_call>>
    /\ UNCHANGED <<meshVars, sceneVars, boxVars, shadeVars, renderVars, phongVars>>

GenerateRaysReturn ==
    /\ gen = "running"
    /\ ~MoreSamples(Len(rays), cam.aa_sample_count)
    /\ gen' = "returned"
    /\ UNCHANGED <<cam, gen_call, offsets, rays>>
    /\ UNCHANGED <<meshVars, sceneVars, boxVars, shadeVars, renderVars, phongVars>>

(***************************************************************************)
(* Scene::phong_shade_ray                                                   *)
(***************************************************************************)
\* Scene::intersect_ray as a function of the object list: the loop of the
\* scan above run to its end.
RECURSIVE ScanObjects(_, _, _, _, _)
ScanObjects(objs, best, ray, t_min, t_max) ==
    IF objs = <<>> THEN best
    ELSE ScanObjects(Tail(objs),
                     UpdateBest(best, Object_intersect_ray(Head(objs), ray, t_min, t_max)),
                     ray, t_min, t_max)
Scene_intersect_ray(objs, ray, t_min, t_max) == ScanObjects(objs, None, ray, t_min, t_max)

\* The floor and two horizontal triangles above the point (0, 0, 0).
PhongObjects ==
    { [kind |-> "Plane", point |-> V(0, 0, 0), normal |-> V(0, 0, 1), material |-> "floor"],
      [kind |-> "Triangle", a |-> V(-1, -1, 2), b |-> V(3, -1, 2), c |-> V(-1, 3, 2),
       material |-> "low"],
      [kind |-> "Triangle", a |-> V(-1, -1, 8), b |-> V(3, -1, 8), c |-> V(-1, 3, 8),
       material |-> "high"] }
PointLights == { V(0, 0, 10), V(0, 0, 6) }
PhongRays ==
    { Ray(V(-3, 0, 4), V(3, 0, -4)),
      Ray(V(0, 0, 5), V(0, 0, -1)),
      Ray(V(0, 0, 5), V(0, 0, 1)),
      Ray(V(0, 0, 5), V(1, 0, 0)) }

\* f32::powf(x, 40.0), exact for 0 and 1.
Powf40(x) == IF x = R(0) \/ x = R(1) THEN Exact(x) ELSE Inexact(<<"powf", x, 40>>)

\* The weight chosen from the result of the shadow ray's query.
shadow_weight(point_light_pos, shadow_hit) ==
    IF ~IsSome(shadow_hit) THEN R(1)
    ELSE IF RLt(Magnitude2(VSub(point_light_pos, shadow_hit.hitpoint)),
                RMul(shadow_hit.distance, shadow_hit.distance))
         THEN R(1)
         ELSE Rat(3, 10)

\* The colour phong_shade_ray returns for a hit is
\* shadow_weight * (ambient + diffuse_weight * brdf + specular_weight * 0.4),
\* kept as its terms: brdf is what the material of the hit answers.
PhongColor(lt, ray, hit, to_light, shadow_ray, shadow_hit) ==
    LET to_camera == Normalize(VSub(lt.eyepoint, hit.hitpoint))
        reflected == VAdd(VNeg(to_light),
                          VScale(RMul(R(2), Dot(to_light, hit.normal)), hit.normal))
        diffuse_weight == RClamp(Dot(hit.normal, to_light), R(0), R(1))
        specular_weight == Powf40(RClamp(Dot(to_camera, reflected), R(0), R(1)))
    IN  [kind |-> "Shaded", ray |-> ray, hit |-> hit,
         shadow_ray |-> shadow_ray, shadow_hit |-> shadow_hit,
         shadow_weight |-> shadow_weight(lt.point_light_pos, shadow_hit),
         ambient |-> lt.ambient,
         diffuse_weight |-> diffuse_weight,
         brdf_of |-> hit.material,
         specular_weight |-> specular_weight]

\* phong_shade_ray(ray) is called.  `phong` holds the call's position and
\* locals: its next query of the scene is (q_ray, 0, q_max), answered in `answer`.
PhongCall ==
    /\ phong.kind \in {"None", "Background", "Shaded"}
    /\ \E ray \in PhongRays :
         phong' = [kind |-> "Primary", ray |-> ray, hit |-> None, to_light |-> None,
                   q_ray |-> ray, q_max |-> lighting.max_trace_dist, answer |-> None]
    /\ UNCHANGED lighting
    /\ UNCHANGED <<meshVars, sceneVars, boxVars, shadeVars, renderVars, camVars>>

\* self.intersect_ray for the primary ray or for the shadow ray.
PhongQuery ==
    /\ phong.kind \in {"Primary", "Shadow"}
    /\ phong' = [phong EXCEPT
                   !.kind = IF @ = "Primary" THEN "Hit" ELSE "Occlusion",
                   !.answer = Scene_intersect_ray(objects, phong.q_ray, R(0), phong.q_max)]
    /\ UNCHANGED lighting
    /\ UNCHANGED <<meshVars, sceneVars, boxVars, shadeVars, renderVars, camVars>>

\* None => the background colour is returned.
PhongMiss ==
    /\ phong.kind = "Hit"
    /\ ~IsSome(phong.answer)
    /\ phong' = [kind |-> "Background", ray |-> phong.ray,
                 color |-> background_color(phong.ray.direction)]
    /\ UNCHANGED lighting
    /\ UNCHANGED <<meshVars, sceneVars, boxVars, shadeVars, renderVars, camVars>>

\* Some(hit) => the shadow ray starts 0.01 off the surface and points at the
\* light; it is queried up to the distance of the light from the hit point.
PhongCastShadow ==
    /\ phong.kind = "Hit"
    /\ IsSome(phong.answer)
    /\ phong' = [phong EXCEPT
                   !.kind = "Shadow",
                   !.hit = phong.answer,
                   !.to_light = Normalize(VSub(lighting.point_light_pos, phong.answer.hitpoint)),
                   !.q_ray = Ray(VAdd(phong.answer.hitpoint,
                                      VScale(Rat(1, 100), phong.answer.normal)),
                                 Normalize(VSub(lighting.point_light_pos, phong.answer.hitpoint))),
                   !.q_max = Magnitude(VSub(lighting.point_light_pos, phong.answer.hitpoint)),
                   !.answer = None]
    /\ UNCHANGED lighting
    /\ UNCHANGED <<meshVars, sceneVars, boxVars, shadeVars, renderVars, camVars>>

\* The shadow weight is chosen and the colour returned.
PhongReturn ==
    /\ phong.kind = "Occlusion"
    /\ phong' = PhongColor(lighting, phong.ray, phong.hit, phong.to_light,
                           phong.q_ray, phong.answer)
    /\ UNCHANGED lighting
    /\ UNCHANGED <<meshVars, sceneVars, boxVars, shadeVars, renderVars, camVars>>

(***************************************************************************)
(* Specifications                                                           *)
(***************************************************************************)
InitMesh(ms) ==
    /\ mesh \in ms
    /\ bvh_root = None
    /\ tris = <<>>
    /\ stack = <<>>
    /\ build = "new"

InitScene(objs) ==
    /\ objects \in objs
    /\ query = None
    /\ scan_idx = 0
    /\ obj_hit = None
    /\ best_hit = None
    /\ scan = "idle"

InitBoxes(bs) ==
    /\ box_in \in bs \X bs \X bs
    /\ box_out = None

InitShade(depths, samples) ==
    /\ camera \in [path_depth : depths, path_samples : samples]
    /\ calls = <<>>
    /\ shade = "idle"
    /\ radiance = None
    /\ queried = {}
    /\ invocations = 0

InitRender(widths, heights) ==
    /\ screen \in [width : widths, height : heights]
    /\ img = [slot \in 0..(ImageLen(screen) - 1) |-> 0]
    /\ writers = [slot \in 0..(ImageLen(screen) - 1) |-> <<>>]
    /\ task_x = [y \in 0..(NumChunks(ImageLen(screen), ChunkSize(screen.width)) - 1) |-> 0]
    /\ render = "running"

InitCamera(cams) ==
    /\ cam \in cams
    /\ gen = "idle"
    /\ gen_call = None
    /\ offsets = <<>>
    /\ rays = <<>>

\* The parts a specification does not exercise stay as constructed.
InitPhong(lights) ==
    /\ lighting \in [point_light_pos : lights, ambient : { <<Rat(1, 10), Rat(1, 10), Rat(1, 10)>> },
                     eyepoint : { V(0, 0, 5) }, max_trace_dist : { R(100) }]
    /\ phong = None

NoMesh == InitMesh({ MeshOf(<<>>) })
NoScene == InitScene({ <<>> })
NoBoxes == InitBoxes({ AABB_default })
NoShade == InitShade({0}, {0})
NoRender == InitRender({1}, {0})
NoCamera == InitCamera({ CHOOSE c \in Cameras({0}) : TRUE })
NoPhong == InitPhong({ V(0, 0, 10) })

\* A scene holding one mesh of up to MaxTris triangles.
Init ==
    /\ InitMesh(Meshes(MaxTris))
    /\ InitScene({ <<MeshObject>> })
    /\ NoBoxes /\ NoShade /\ NoRender /\ NoCamera /\ NoPhong

Next ==
    \/ BuildBvh
    \/ HelperLeaf
    \/ HelperSplit
    \/ HelperJoin
    \/ SceneIntersectBegin
    \/ SceneIntersectStep
    \/ SceneIntersectReturn

Spec == Init /\ [][Next]_vars

\* A scene of up to MaxObjects objects: primitives and the mesh, in any order.
SceneInit ==
    /\ InitMesh(SceneMeshes)
    /\ InitScene(SeqsUpTo(Primitives \cup {MeshObject}, MaxObjects))
    /\ NoBoxes /\ NoShade /\ NoRender /\ NoCamera /\ NoPhong

SceneSpec == SceneInit /\ [][Next]_vars

\* Unions of boxes.
BoxInit == InitBoxes(BoxInputs) /\ NoMesh /\ NoScene /\ NoShade /\ NoRender /\ NoCamera /\ NoPhong
BoxNext == Surround \/ SurroundNext
BoxSpec == BoxInit /\ [][BoxNext]_vars

\* The path integrator, for every path_depth and path_samples within the bounds.
ShadeInit ==
    /\ InitShade(0..MaxPathDepth, 0..MaxPathSamples)
    /\ NoMesh /\ NoScene /\ NoBoxes /\ NoRender /\ NoCamera /\ NoPhong
ShadeNext == ShadeCall \/ ShadeEntry \/ ShadeScatter \/ ShadeFinish
ShadeSpec == ShadeInit /\ [][ShadeNext]_vars

\* The render driver, its row tasks interleaved in every order.
RenderInit ==
    /\ InitRender(1..MaxWidth, 0..MaxHeight)
    /\ NoMesh /\ NoScene /\ NoBoxes /\ NoShade /\ NoCamera /\ NoPhong
RenderNext == (\E y \in DOMAIN task_x : RenderPixel(y)) \/ RenderFinish
RenderSpec == RenderInit /\ [][RenderNext]_vars

\* generate_rays for every camera of the catalog, pixel and rng stream.
CameraInit ==
    /\ InitCamera(Cameras(0..MaxAASamples))
    /\ NoMesh /\ NoScene /\ NoBoxes /\ NoShade /\ NoRender /\ NoPhong
CameraNext == GenerateRaysCall \/ GenerateRay \/ GenerateRaysReturn
CameraSpec == CameraInit /\ [][CameraNext]_vars

\* phong_shade_ray for every scene of up to MaxObjects objects and every light.
PhongInit ==
    /\ InitScene(SeqsUpTo(PhongObjects, MaxObjects))
    /\ InitPhong(PointLights)
    /\ NoMesh /\ NoBoxes /\ NoShade /\ NoRender /\ NoCamera
PhongNext ==
    \/ PhongCall \/ PhongQuery \/ PhongMiss
    \/ PhongCastShadow \/ PhongReturn
PhongSpec == PhongInit /\ [][PhongNext]_vars

(***************************************************************************)
(* Properties                                                               *)
(***************************************************************************)
\* Every node of a tree, and the triangle indices its leaves hold, in order.
RECURSIVE Nodes(_)
Nodes(n) == IF ~IsSome(n) THEN {} ELSE {n} \cup Nodes(n.left) \cup Nodes(n.right)

RECURSIVE HeldTriangles(_)
HeldTriangles(n) ==
    IF ~IsSome(n) THEN <<>>
    ELSE (IF IsSome(n.primitive) THEN <<n.primitive.idx>> ELSE <<>>)
            \o HeldTriangles(n.left) \o HeldTriangles(n.right)

IsLeafNode(n) == IsSome(n.primitive) /\ ~IsSome(n.left) /\ ~IsSome(n.right)
IsInteriorNode(n) == ~IsSome(n.primitive) /\ IsSome(n.left) /\ IsSome(n.right)

SetMin(S) == CHOOSE x \in S : \A y \in S : RLe(x, y)
SetMax(S) == CHOOSE x \in S : \A y \in S : RLe(y, x)
\* The box spanned by the per-axis extrema of a set of points.
ExtremaBox(P) ==
    AABB( <<SetMin({q[1] : q \in P}), SetMin({q[2] : q \in P}), SetMin({q[3] : q \in P})>>,
          <<SetMax({q[1] : q \in P}), SetMax({q[2] : q \in P}), SetMax({q[3] : q \in P})>> )

TriangleVertices(m, idx) ==
    LET T == get_triangle_from_mesh(m, idx) IN {T.a, T.b, T.c}
SubtreeVertices(m, n) ==
    LET held == HeldTriangles(n)
    IN  UNION { TriangleVertices(m, held[i]) : i \in 1..Len(held) }

Queried == scan # "idle"
VisitedObject == objects[scan_idx]
InInterval(h) == RLe(query.t_min, h.distance) /\ RLe(h.distance, query.t_max)

\* The hits a linear scan of IndexedTriangle::intersect_ray over the mesh finds.
LinearScanHits ==
    { h \in { IndexedTriangle_intersect_ray(mesh, i, query.ray, query.t_min, query.t_max) :
                i \in 0..(NumTris(mesh) - 1) } : IsSome(h) }

\* C1: intersecting the built BVH (StaticMesh::intersect_ray) returns a hit
\* exactly when a linear scan over the mesh's triangles finds one in the
\* interval, and then at the smallest distance the scan finds.
C1_BvhMatchesLinearScan ==
    (Queried /\ scan_idx >= 1 /\ VisitedObject.kind = "StaticMesh") =>
        /\ IsSome(obj_hit) <=> LinearScanHits # {}
        /\ IsSome(obj_hit) =>
              /\ \A h \in LinearScanHits : RLe(obj_hit.distance, h.distance)
              /\ \E h \in LinearScanHits : h.distance = obj_hit.distance

\* C2: in a tree built over n >= 1 triangles every node is a leaf (one
\* primitive, no children) or an interior node (two children, no primitive),
\* there are n leaves, and the leaves hold the indices 0..n-1, each once.
C2_TreeShape ==
    (build = "done" /\ NumTris(mesh) >= 1) =>
        LET held == HeldTriangles(bvh_root)
        IN  /\ \A n \in Nodes(bvh_root) : IsLeafNode(n) # IsInteriorNode(n)
            /\ Cardinality({n \in Nodes(bvh_root) : IsLeafNode(n)}) = NumTris(mesh)
            /\ Len(held) = NumTris(mesh)
            /\ { held[i] : i \in 1..Len(held) } = 0..(NumTris(mesh) - 1)

C2_Witness ==
    /\ build = "done"
    /\ NumTris(mesh) >= 3
    /\ IsLeafNode(bvh_root.left)
    /\ IsInteriorNode(bvh_root.right)

\* C4: the normal of every hit an intersect_ray returns faces the incoming
\* ray: dot(hit.normal, ray.direction) <= 0.
C4_NormalsFaceRay ==
    Queried =>
        /\ IsSome(obj_hit) => RLe(Dot(obj_hit.normal, query.ray.direction), R(0))
        /\ IsSome(best_hit) => RLe(Dot(best_hit.normal, query.ray.direction), R(0))

\* C5: Scene::intersect_ray returns None iff no object reports a hit in the
\* interval; otherwise the hit of the first object, in list order, among those
\* reporting the minimum distance.
ObjectHits ==
    [i \in 1..Len(objects) |->
        Object_intersect_ray(objects[i], query.ray, query.t_min, query.t_max)]
Hitters(hits) == { i \in DOMAIN hits : IsSome(hits[i]) }
FirstClosest(hits) ==
    CHOOSE i \in Hitters(hits) : \A j \in Hitters(hits) :
        \/ RLt(hits[i].distance, hits[j].distance)
        \/ hits[i].distance = hits[j].distance /\ i <= j

C5_ClosestFirstWins ==
    scan = "returned" =>
        LET hits == ObjectHits
        IN  /\ best_hit = None <=> Hitters(hits) = {}
            /\ Hitters(hits) # {} => best_hit = hits[FirstClosest(hits)]

C5_Witness ==
    /\ scan = "returned"
    /\ LET hits == ObjectHits
       IN  \E i, j \in Hitters(hits) :
             /\ i < j
             /\ hits[i].distance = hits[j].distance
             /\ hits[i].material # hits[j].material
             /\ best_hit = hits[i]

\* C6: a hit returned by any intersectable has t_min <= distance <= t_max:
\* what the scene object just visited reports, what the scene holds as its
\* best, and, when the visited object is the mesh, what every node of its BVH
\* (leaves are IndexedTriangles) returns.
C6_HitsWithinInterval ==
    Queried =>
        /\ IsSome(obj_hit) => InInterval(obj_hit)
        /\ IsSome(best_hit) => InInterval(best_hit)
        /\ (scan_idx >= 1 /\ VisitedObject.kind = "StaticMesh") =>
             \A n \in Nodes(bvh_root) :
                LET h == BVHNode_intersect_ray(n, mesh, query.ray, query.t_min, query.t_max)
                IN  IsSome(h) => InInterval(h)

\* An object whose intersection lies beyond t_max reports no hit, while
\* another one reports a hit at exactly t_max.
C6_Witness ==
    /\ scan = "returned"
    /\ IsSome(best_hit)
    /\ best_hit.distance = query.t_max
    /\ \E i \in 1..Len(objects) :
         /\ ~IsSome(ObjectHits[i])
         /\ IsSome(Object_intersect_ray(objects[i], query.ray, R(0), R(100)))

\* C8: in a built tree a leaf's box is the per-axis minimum and maximum of its
\* triangle's three vertices, an interior node's box is the union of its
\* children's boxes, and so every node's box is the per-axis extrema of all
\* vertices of the triangles in its subtree.
C8_BoxesAreTight ==
    build = "done" =>
        \A n \in Nodes(bvh_root) :
            /\ IsLeafNode(n) => n.aabb = ExtremaBox(TriangleVertices(mesh, n.primitive.idx))
            /\ IsInteriorNode(n) =>
                  n.aabb = ExtremaBox({n.left.aabb.min, n.left.aabb.max,
                                       n.right.aabb.min, n.right.aabb.max})
            /\ n.aabb = ExtremaBox(SubtreeVertices(mesh, n))

\* Three triangles whose union is larger than either child's box.
C8_Witness ==
    /\ build = "done"
    /\ NumTris(mesh) = 3
    /\ bvh_root.aabb # bvh_root.left.aabb
    /\ bvh_root.aabb # bvh_root.right.aabb
    /\ Cardinality(SubtreeVertices(mesh, bvh_root)) >= 8

\* C10: a triangle (Triangle or IndexedTriangle) reports a hit only if the ray
\* is not parallel to its plane and the barycentric coordinates satisfy
\* u >= 0, v >= 0, u + v <= 1, and then the hit point is a + u(b-a) + v(c-a);
\* a ray parallel to the plane gets no hit.
Parallel(T, ray) == Dot(ray.direction, Cross(VSub(T.b, T.a), VSub(T.c, T.a))) = R(0)
Barycentric(T, h, u, v) ==
    /\ RLe(R(0), u)
    /\ RLe(R(0), v)
    /\ RLe(RAdd(u, v), R(1))
    /\ h.hitpoint = VAdd(T.a, VAdd(VScale(u, VSub(T.b, T.a)), VScale(v, VSub(T.c, T.a))))

C10_TriangleHitsAreBarycentric ==
    (Queried /\ scan_idx >= 1) =>
        /\ VisitedObject.kind = "Triangle" =>
                LET T == VisitedObject
                    h == obj_hit
                IN  /\ Parallel(T, query.ray) => ~IsSome(h)
                    /\ IsSome(h) =>
                          /\ ~Parallel(T, query.ray)
                          /\ Barycentric(T, h, Triangle_u(T, query.ray), Triangle_v(T, query.ray))
        /\ VisitedObject.kind = "StaticMesh" =>
            \A idx \in 0..(NumTris(mesh) - 1) :
                LET T == get_triangle_from_mesh(mesh, idx)
                    h == IndexedTriangle_intersect_ray(mesh, idx, query.ray, query.t_min, query.t_max)
                IN  /\ Parallel(T, query.ray) => ~IsSome(h)
                    /\ IsSome(h) =>
                          /\ ~Parallel(T, query.ray)
                          /\ Barycentric(T, h, IndexedTriangle_u(mesh, idx, query.ray),
                                         IndexedTriangle_v(mesh, idx, query.ray))

\* A Triangle object has just reported a hit strictly inside the triangle.
C10_Witness ==
    /\ Queried
    /\ scan_idx >= 1
    /\ VisitedObject.kind = "Triangle"
    /\ IsSome(obj_hit)
    /\ RLt(R(0), Triangle_u(VisitedObject, query.ray))
    /\ RLt(R(0), Triangle_v(VisitedObject, query.ray))
    /\ RLt(RAdd(Triangle_u(VisitedObject, query.ray), Triangle_v(VisitedObject, query.ray)), R(1))

\* ---- C9 ----------------------------------------------------------------
Contains(outer, inner) ==
    \A i \in 1..3 : RLe(outer.min[i], inner.min[i]) /\ RLe(inner.max[i], outer.max[i])

\* C9: aabb_surrounding(a, b) contains a and b on every axis, gives the same
\* box for (b, a), and nesting it either way over a, b, c gives the same box.
C9_SurroundingAlgebra ==
    box_out # None =>
        /\ Contains(box_out.ab, box_in[1])
        /\ Contains(box_out.ab, box_in[2])
        /\ box_out.ab = box_out.ba
        /\ box_out.ab_c = box_out.a_bc

\* Three different boxes whose unions are none of the operands.
C9_Witness ==
    /\ box_out # None
    /\ Cardinality({box_in[1], box_in[2], box_in[3]}) = 3
    /\ box_out.ab \notin {box_in[1], box_in[2]}
    /\ box_out.ab_c \notin {box_out.ab, box_in[3]}

\* ---- C3 ----------------------------------------------------------------
\* C3: no call of shade_ray that queried the scene or sits in its sample loop
\* is at a depth >= path_depth, and with path_depth = 0 the call returns the
\* zero background colour without a scene query.
C3_QueriesBelowPathDepth ==
    /\ \A d \in queried : d < camera.path_depth
    /\ \A k \in 1..Len(calls) :
         calls[k].pc \in {"loop", "wait"} => calls[k].depth < camera.path_depth
    /\ (camera.path_depth = 0 /\ shade = "done") =>
         (radiance = VZero /\ queried = {})

\* The recursion has reached the limit: a call at depth path_depth is about
\* to take the depth test, every level above it having queried the scene.
C3_Witness ==
    /\ camera.path_depth >= 2
    /\ Len(calls) = camera.path_depth + 1
    /\ calls[Len(calls)].pc = "entry"
    /\ calls[Len(calls)].depth = camera.path_depth
    /\ queried = 0..(camera.path_depth - 1)

\* ---- C7 ----------------------------------------------------------------
\* The slot of channel c of pixel (x, y) in the row-major RGB image.
ImageSlot(x, y, c) == (y * screen.width + x) * 3 + c
RowOfSlot(s) == s \div (3 * screen.width)

\* C7: every write to a slot comes from the task of the slot's row, no slot
\* is written by two different tasks, and once every task has finished each
\* slot (x, y, channel) has been written exactly once.
C7_RowTasksOwnTheirRows ==
    /\ \A s \in DOMAIN writers :
         /\ \A k \in 1..Len(writers[s]) : writers[s][k] = RowOfSlot(s)
         /\ Cardinality({ writers[s][k] : k \in 1..Len(writers[s]) }) <= 1
    /\ render = "done" =>
         \A x \in 0..(screen.width - 1), y \in 0..(screen.height - 1), c \in 0..2 :
            /\ ImageSlot(x, y, c) \in DOMAIN writers
            /\ writers[ImageSlot(x, y, c)] = <<y>>

\* A finished render of an image of several rows and columns.
C7_Witness ==
    /\ render = "done"
    /\ screen.width >= 2
    /\ screen.height >= 2
    /\ \A s \in DOMAIN writers : Len(writers[s]) = 1

\* ---- C11 ---------------------------------------------------------------
\* The ray starts outside the sphere, at a rational distance from the center,
\* and points at the center.
ThroughCenter(sph, ray) ==
    LET f == VSub(ray.origin, sph.center)
    IN  /\ Cross(f, ray.direction) = VZero
        /\ RLt(Dot(f, ray.direction), R(0))
        /\ RIsSquare(Magnitude2(f))
        /\ RLt(sph.radius, Magnitude(f))
FrontDistance(sph, ray) == RSub(Magnitude(VSub(ray.origin, sph.center)), sph.radius)

\* C11: a ray with non-zero direction pointing through a sphere's center from
\* distance d > r, over an interval containing d - r, gets a hit at distance
\* d - r whose normal is the unit vector along hitpoint - center.
C11_SphereFrontHit ==
    (/\ Queried
     /\ scan_idx >= 1
     /\ VisitedObject.kind = "Sphere"
     /\ ThroughCenter(VisitedObject, query.ray)
     /\ RLe(query.t_min, FrontDistance(VisitedObject, query.ray))
     /\ RLe(FrontDistance(VisitedObject, query.ray), query.t_max))
    => /\ IsSome(obj_hit)
       /\ obj_hit.distance = FrontDistance(VisitedObject, query.ray)
       /\ Magnitude2(obj_hit.normal) = R(1)
       /\ obj_hit.normal = VScale(RDiv(R(1), VisitedObject.radius),
                                  VSub(obj_hit.hitpoint, VisitedObject.center))

\* ---- C12 ---------------------------------------------------------------
\* C12: generate_rays returns exactly aa_sample_count rays, for every pixel and
\* both projection modes (none when aa_sample_count = 0); its vector never
\* holds more.
C12_OneRayPerSample ==
    /\ Len(rays) <= cam.aa_sample_count
    /\ gen = "returned" => Len(rays) = cam.aa_sample_count

\* A call has returned the rays of a count that is not a perfect square.
C12_Witness ==
    /\ gen = "returned"
    /\ cam.aa_sample_count = 3
    /\ Len(rays) = 3
    /\ cam.projection_mode = "Perspective"

\* ---- C13 ---------------------------------------------------------------
\* The sub-cell of grid cell index `cell` on one axis: [lo, lo + pixel_size/k).
InSubCell(offset, cell, k, ps) ==
    LET lo == RDiv(RMul(RSub(R(cell), RMul(Rat(1, 2), R(k))), ps), R(k))
    IN  RLe(lo, offset) /\ RLt(offset, RAdd(lo, RDiv(ps, R(k))))

\* C13: with aa_sample_count = k*k, sample i is assigned cell (i div k, i mod k),
\* different samples get different cells, and the offset of sample i (cell
\* offset plus jitter) lies in its own sub-cell of width pixel_size/k.
C13_OffsetsStratified ==
    LET n == cam.aa_sample_count
        k == FloorSqrt(n)
    IN  (n >= 1 /\ k * k = n) =>
          /\ \A i \in 1..Len(offsets) :
               /\ Subpixel(i - 1, n) = <<(i - 1) \div k, (i - 1) % k>>
               /\ InSubCell(offsets[i].v[1], Subpixel(i - 1, n)[1], k, pixel_size(cam))
               /\ InSubCell(offsets[i].v[2], Subpixel(i - 1, n)[2], k, pixel_size(cam))
          /\ \A i, j \in 1..Len(offsets) : i # j => Subpixel(i - 1, n) # Subpixel(j - 1, n)

\* ---- C14 ---------------------------------------------------------------
\* C14: in orthographic mode every ray of generate_rays has the direction
\* view_dir, and its origin is the pixel's point of the image plane.
C14_OrthographicDirection ==
    cam.projection_mode = "Orthographic" =>
        \A i \in 1..Len(rays) :
            /\ rays[i].direction.exact
            /\ rays[i].direction.v = cam.view_dir
            /\ rays[i].origin =
                 OnImagePlane(cam_space_pixel_center(cam, gen_call.screen_x, gen_call.screen_y,
                                                     offsets[i]))

\* ---- C15 ---------------------------------------------------------------
\* C15: when build_bvh_helper has built both children of an interior node, with
\* the axis it chose, every triangle held by a leaf of the left subtree has a
\* box minimum on that axis <= that of every triangle held by a leaf of the
\* right subtree.
C15_SplitFollowsSortedOrder ==
    \A k \in 1..Len(stack) :
        stack[k].pc = "join" =>
            LET l == HeldTriangles(stack[k].left)
                r == HeldTriangles(stack[k].right)
            IN  \A i \in 1..Len(l), j \in 1..Len(r) :
                    RLe(SortKey(mesh, l[i], stack[k].axis), SortKey(mesh, r[j], stack[k].axis))

\* ---- C16 ---------------------------------------------------------------
NumLeaves(n) == Len(HeldTriangles(n))
RECURSIVE Depth(_)
Depth(n) ==
    IF IsLeafNode(n) THEN 0
    ELSE 1 + (IF Depth(n.left) >= Depth(n.right) THEN Depth(n.left) ELSE Depth(n.right))
\* The least d with 2^d >= n.
RECURSIVE Pow2(_)
Pow2(d) == IF d = 0 THEN 1 ELSE 2 * Pow2(d - 1)
CeilLog2(n) == CHOOSE d \in 0..n : Pow2(d) >= n /\ (d = 0 \/ Pow2(d - 1) < n)

\* C16: in the built tree an interior node over k leaves has floor(k/2) leaves
\* on the left and ceil(k/2) on the right, and the depth of the tree over n
\* triangles is ceil(log2(n)), whatever axes were drawn.
C16_TreeIsBalanced ==
    (build = "done" /\ NumTris(mesh) >= 1) =>
        /\ \A n \in Nodes(bvh_root) :
             IsInteriorNode(n) =>
                /\ NumLeaves(n.left) = NumLeaves(n) \div 2
                /\ NumLeaves(n.right) = NumLeaves(n) - NumLeaves(n) \div 2
        /\ Depth(bvh_root) = CeilLog2(NumTris(mesh))

\* A tree over three triangles: one leaf on the left, two on the right.
C16_Witness ==
    /\ build = "done"
    /\ NumTris(mesh) = 3
    /\ NumLeaves(bvh_root.left) = 1
    /\ NumLeaves(bvh_root.right) = 2
    /\ Depth(bvh_root) = 2

\* ---- C20 ---------------------------------------------------------------
FrameSize(fr) == fr.end - fr.start

\* C20: the construction ends for every triangle count, zero included: the
\* stack is never exhausted, every call of build_bvh_helper is on a non-empty
\* range, and a recursive call is on a range strictly smaller than its caller's.
C20_BuildTerminates ==
    /\ build # "overflow"
    /\ \A k \in 1..Len(stack) :
         /\ FrameSize(stack[k]) >= 1
         /\ k > 1 => FrameSize(stack[k]) < FrameSize(stack[k - 1])

\* ---- C18 ---------------------------------------------------------------
RECURSIVE Pow(_, _)
Pow(b, e) == IF e = 0 THEN 1 ELSE b * Pow(b, e - 1)
\* The sum of samples^k over k in 0..depth.
RECURSIVE GeometricSum(_, _)
GeometricSum(samples, depth) ==
    IF depth = 0 THEN 1 ELSE Pow(samples, depth) + GeometricSum(samples, depth - 1)

\* C18: a call of shade_ray recurses only below path_depth and after a hit,
\* each recursive call is one level deeper than its caller, a call makes
\* path_samples scatter queries and recursive calls (never more, and all of
\* them before it returns), and a top-level call makes at most the sum over
\* k in 0..path_depth of path_samples^k invocations.
C18_BoundedRecursion ==
    /\ \A k \in 1..Len(calls) :
         /\ calls[k].depth = k - 1
         /\ calls[k].i <= camera.path_samples
         /\ calls[k].pc = "wait" =>
               /\ calls[k].i < camera.path_samples
               /\ k < Len(calls)
         /\ k < Len(calls) =>
               /\ calls[k].pc = "wait"
               /\ calls[k].depth < camera.path_depth
               /\ calls[k].hit \in ShadeHits
               /\ calls[k].sc \in Scatters
    /\ invocations <= GeometricSum(camera.path_samples, camera.path_depth)

\* A top-level call is over after the largest number of invocations.
C18_Witness ==
    /\ shade = "done"
    /\ camera.path_depth >= 2
    /\ camera.path_samples >= 2
    /\ invocations = GeometricSum(camera.path_samples, camera.path_depth)

\* ---- C19 ---------------------------------------------------------------
\* The part of an averaged channel above 1.0.
Excess(c) == RMax(R(0), RSub(c, R(1)))
\* The channel j (1..3) of a pixel after desaturation, in closed form.
Bled(avg, j) ==
    RAdd(avg[j], RAdd(Excess(avg[(j % 3) + 1]), Excess(avg[((j + 1) % 3) + 1])))

\* C19: every byte of a written pixel is the quantisation, after the clamp to
\* [0, 1], of the averaged channel plus the excess over 1.0 of the two other
\* averaged channels (the excess is taken from the colour before any bleeding
\* and is never bled again), and lies in 0..255.
C19_DesaturationFromAverage ==
    \A y \in DOMAIN task_x : \A x \in 0..(task_x[y] - 1) : \A j \in 1..3 :
        LET byte == img[ChunkSlot(screen, y, PixelElement(x, j - 1))]
        IN  /\ byte = Quantize(Bled(AveragedColor(x, y), j), Gamma)
            /\ byte \in 0..255

\* The image is complete and holds a pixel whose bled channel is above 1.0
\* after bleeding while its own average was below 1.0.
C19_Witness ==
    /\ render = "done"
    /\ \E y \in DOMAIN task_x : \E x \in 0..(screen.width - 1) : \E j \in 1..3 :
         LET avg == AveragedColor(x, y)
         IN  /\ RLt(avg[j], R(1))
             /\ RLt(R(1), Bled(avg, j))
             /\ img[ChunkSlot(screen, y, PixelElement(x, j - 1))] = 255

\* ---- C17 ---------------------------------------------------------------
\* The distance from the shaded hit point to the point light.
LightDistance == Magnitude(VSub(lighting.point_light_pos, phong.hit.hitpoint))
\* Some object is hit by the shadow ray at a distance s with 0 <= s <= L.
Occluded ==
    \E k \in 1..Len(objects) :
        LET h == Object_intersect_ray(objects[k], phong.shadow_ray, R(0), LightDistance)
        IN  /\ IsSome(h)
            /\ RLe(R(0), h.distance)
            /\ RLe(h.distance, LightDistance)

\* C17: for a shaded hit point the shadow weight is 0.3 whenever the shadow
\* ray hits an object between the hit point and the light, wherever on that
\* segment, and 1.0 only when it hits none there.
C17_BinaryOcclusion ==
    phong.kind = "Shaded" =>
        phong.shadow_weight = IF Occluded THEN Rat(3, 10) ELSE R(1)

====
